---------------------------- MODULE Spec2Model ----------------------------
(***************************************************************************)
(* PNGinfo Viewer (class PNGInfoViewer): the PNG chunk walk                *)
(* (parsePNGMetadata, processChunk and the per-kind decoders) and the      *)
(* viewer's image list (processFiles, showImage, resetAll).                *)
(*                                                                         *)
(* A buffer is a sequence of bytes 0..255; the byte at JavaScript index i  *)
(* is buf[i + 1].  A JavaScript string is the sequence of its code points. *)
(***************************************************************************)
EXTENDS Integers, Sequences, FiniteSets, TLC

(***************************************************************************)
(* Bounds of the model.                                                    *)
(***************************************************************************)
\* longest tEXt payload drawn
MaxTextLen == 4
\* longest iTXt payload drawn
MaxITextLen == 7
\* longest text that is deflated into a zTXt payload
MaxInflated == 2
\* largest size of the pieces in which the decompressor delivers its output
MaxPiece == 2
\* most chunks in a buffer built from the chunk catalogue
MaxChunks == 2
\* most calls of parsePNGMetadata in flight at once
MaxCalls == 2
\* most calls of processFiles
MaxUploads == 2
\* most files handed to processFiles, all calls together
MaxFiles == 2

(***************************************************************************)
(* Program constants.                                                      *)
(***************************************************************************)
\* let offset = 8: the length of the signature
SigLen == 8
\* while (offset < buffer.byteLength - 8)
LoopMargin == 8
\* offset += 12 + chunkLength
ChunkOverhead == 12

pngSignature == <<137, 80, 78, 71, 13, 10, 26, 10>>

\* the chunk types of the switch in processChunk, as their character codes
IHDR == <<73, 72, 68, 82>>
tEXt == <<116, 69, 88, 116>>
iTXt == <<105, 84, 88, 116>>
zTXt == <<122, 84, 88, 116>>
pHYs == <<112, 72, 89, 115>>
tIME == <<116, 73, 77, 69>>
IEND == <<73, 69, 78, 68>>

(***************************************************************************)
(* Sequences.                                                              *)
(***************************************************************************)
\* `const x = value; ... x ...`: the value is computed once and named
With(value, Body(_)) == CHOOSE r \in {Body(x) : x \in {value}} : TRUE

Min(a, b) == IF a < b THEN a ELSE b
Max(a, b) == IF a > b THEN a ELSE b

\* ArrayBuffer.slice / Uint8Array.slice(begin, end) with 0 <= begin: the
\* bytes at indices begin .. end-1, both clamped to the length
Slice(s, begin, end) ==
    LET b == Min(begin, Len(s))
        e == Min(Max(end, b), Len(s))
    IN  SubSeq(s, b + 1, e)

\* Uint8Array.indexOf(v, from) with from >= 0: the first index >= from that
\* holds v, or -1
IndexOf(s, v, from) ==
    LET hits == {i \in from .. Len(s) - 1 : s[i + 1] = v}
    IN  IF hits = {} THEN -1
        ELSE CHOOSE i \in hits : \A j \in hits : i <= j

\* DataView.getUint8 / getUint32 throw a RangeError outside the buffer
InView(buf, i, n) == i >= 0 /\ i + n <= Len(buf)
GetUint8(buf, i) == buf[i + 1]
GetUint16(buf, i) == buf[i + 1] * 256 + buf[i + 2]
GetUint32(buf, i) ==
    buf[i + 1] * 16777216 + buf[i + 2] * 65536 + buf[i + 3] * 256 + buf[i + 4]

\* readString: one character per byte, String.fromCharCode(byte)
readString(buf, offset, length) == [i \in 1 .. length |-> buf[offset + i]]

(***************************************************************************)
(* Text decoding.                                                          *)
(***************************************************************************)
\* TextDecoder('latin1'): the label latin1 names windows-1252, whose bytes
\* 0x80..0x9F are not the Latin-1 code points
Win1252High ==
    <<8364, 129, 8218, 402, 8222, 8230, 8224, 8225,
      710, 8240, 352, 8249, 338, 141, 381, 143,
      144, 8216, 8217, 8220, 8221, 8226, 8211, 8212,
      732, 8482, 353, 8250, 339, 157, 382, 376>>

Latin1Char(b) == IF b >= 128 /\ b <= 159 THEN Win1252High[b - 127] ELSE b

Latin1Decode(bytes) == [i \in 1 .. Len(bytes) |-> Latin1Char(bytes[i])]

\* TextDecoder('utf-8'), not fatal: the decoder of the Encoding standard.
\* st = [cp, need, lo, hi]; an ill-formed sequence yields U+FFFD
Utf8Init == [cp |-> 0, need |-> 0, lo |-> 128, hi |-> 191]

RECURSIVE Utf8Run(_, _, _)
Utf8Run(bytes, i, st) ==
    IF i > Len(bytes)
    THEN IF st.need > 0 THEN <<65533>> ELSE <<>>
    ELSE
      LET b == bytes[i] IN
      IF st.need = 0
      THEN
        IF b <= 127 THEN <<b>> \o Utf8Run(bytes, i + 1, Utf8Init)
        ELSE IF b >= 194 /\ b <= 223
             THEN Utf8Run(bytes, i + 1,
                          [cp |-> b % 32, need |-> 1, lo |-> 128, hi |-> 191])
        ELSE IF b >= 224 /\ b <= 239
             THEN Utf8Run(bytes, i + 1,
                          [cp |-> b % 16, need |-> 2,
                           lo |-> IF b = 224 THEN 160 ELSE 128,
                           hi |-> IF b = 237 THEN 159 ELSE 191])
        ELSE IF b >= 240 /\ b <= 244
             THEN Utf8Run(bytes, i + 1,
                          [cp |-> b % 8, need |-> 3,
                           lo |-> IF b = 240 THEN 144 ELSE 128,
                           hi |-> IF b = 244 THEN 143 ELSE 191])
        ELSE <<65533>> \o Utf8Run(bytes, i + 1, Utf8Init)
      ELSE
        IF b < st.lo \/ b > st.hi
        THEN \* the byte is read again as the start of a sequence
             <<65533>> \o Utf8Run(bytes, i, Utf8Init)
        ELSE
          LET cp == st.cp * 64 + (b % 64) IN
          IF st.need = 1
          THEN <<cp>> \o Utf8Run(bytes, i + 1, Utf8Init)
          ELSE Utf8Run(bytes, i + 1,
                       [cp |-> cp, need |-> st.need - 1, lo |-> 128, hi |-> 191])

\* the byte order mark at the start is dropped (ignoreBOM is false)
Utf8Decode(bytes) ==
    With(bytes, LAMBDA input :
      With(Utf8Run(input, 1, Utf8Init), LAMBDA s :
        IF Len(s) > 0 /\ s[1] = 65279 THEN Tail(s) ELSE s))

\* Number.prototype.toString() of n >= 0, as character codes
RECURSIVE NumToString(_)
NumToString(n) ==
    IF n < 10 THEN <<48 + n>> ELSE NumToString(n \div 10) \o <<48 + (n % 10)>>

\* String.prototype.padStart(2, '0')
PadStart2(s) == IF Len(s) < 2 THEN [i \in 1 .. 2 - Len(s) |-> 48] \o s ELSE s

(***************************************************************************)
(* DecompressionStream('deflate'): the zlib format (RFC 1950) around       *)
(* deflate (RFC 1951).  Stored blocks (BTYPE 00) are decoded; the buffers  *)
(* drawn below hold no Huffman-coded block, and such a block is reported   *)
(* as a data error.                                                        *)
(***************************************************************************)
RECURSIVE AdlerRun(_, _, _, _)
AdlerRun(data, i, a, b) ==
    IF i > Len(data) THEN b * 65536 + a
    ELSE LET a2 == (a + data[i]) % 65521
         IN  AdlerRun(data, i + 1, a2, (b + a2) % 65521)

Adler32(data) == AdlerRun(data, 1, 1, 0)

\* The blocks of z from index p (1-based) on, after the output `out`.
\* err: "none", "data" (found while the written bytes are transformed) or
\* "truncated" (the input ends early: found when the writer is closed).
RECURSIVE InflateBlocks(_, _, _)
InflateBlocks(z, p, out) ==
    IF p > Len(z) THEN [out |-> out, err |-> "truncated"]
    ELSE
      LET bfinal == z[p] % 2
          btype == (z[p] \div 2) % 4
      IN
      IF btype # 0 THEN [out |-> out, err |-> "data"]
      ELSE IF p + 4 > Len(z) THEN [out |-> out, err |-> "truncated"]
      ELSE
        LET len == z[p + 1] + 256 * z[p + 2]
            nlen == z[p + 3] + 256 * z[p + 4]
            avail == Len(z) - (p + 4)
        IN
        IF len + nlen # 65535 THEN [out |-> out, err |-> "data"]
        ELSE IF avail < len
             THEN [out |-> out \o SubSeq(z, p + 5, Len(z)), err |-> "truncated"]
        ELSE
          LET out2 == out \o SubSeq(z, p + 5, p + 4 + len)
              q == p + 5 + len
          IN
          IF bfinal = 0 THEN InflateBlocks(z, q, out2)
          ELSE IF q + 3 > Len(z) THEN [out |-> out2, err |-> "truncated"]
          ELSE IF GetUint32(z, q - 1) # Adler32(out2)
               THEN [out |-> out2, err |-> "data"]
          ELSE IF q + 3 < Len(z) THEN [out |-> out2, err |-> "data"]
          ELSE [out |-> out2, err |-> "none"]

Inflate(z) ==
    IF Len(z) < 2 THEN [out |-> <<>>, err |-> "truncated"]
    ELSE IF \/ z[1] % 16 # 8
            \/ z[1] \div 16 > 7
            \/ (z[1] * 256 + z[2]) % 31 # 0
            \/ (z[2] \div 32) % 2 # 0
         THEN [out |-> <<>>, err |-> "data"]
    ELSE InflateBlocks(z, 3, <<>>)

\* What `await reader.read()` gives after writer.write(compressedData) and
\* writer.close().  The stream enqueues its output in pieces whose size the
\* implementation chooses (env.pieceSize) and read() takes the first one;
\* whether output produced before a data error is still enqueued is the
\* implementation's choice too (env.eager).
\*   [kind |-> "value", value |-> piece]   {value: piece, done: false}
\*   [kind |-> "done"]                     {value: undefined, done: true}
\*   [kind |-> "rejected"]                 read() rejects
ReaderRead(compressedData, env) ==
    LET r == Inflate(compressedData)
        piece == SubSeq(r.out, 1, Min(env.pieceSize, Len(r.out)))
        delivered ==
            /\ Len(r.out) > 0
            /\ r.err = "data" => env.eager
    IN  IF delivered THEN [kind |-> "value", value |-> piece]
        ELSE IF r.err = "none" THEN [kind |-> "done"]
        ELSE [kind |-> "rejected"]

(***************************************************************************)
(* The per-kind decoders.  A decoder's null is [present |-> FALSE].        *)
(***************************************************************************)
Null == [present |-> FALSE]
Entry(keyword, text) == [present |-> TRUE, keyword |-> keyword, text |-> text]

\* A faulty variant, kept for comparison: the split is at the last zero byte
parseTextChunkLastZero(data) ==
    LET zeros == {i \in 0 .. Len(data) - 1 : data[i + 1] = 0} IN
    IF zeros = {} THEN Null
    ELSE LET nullIndex == CHOOSE i \in zeros : \A j \in zeros : i >= j IN
         Entry(Latin1Decode(Slice(data, 0, nullIndex)),
               Latin1Decode(Slice(data, nullIndex + 1, Len(data))))

parseTextChunk(data) ==
    LET nullIndex == IndexOf(data, 0, 0) IN
    IF nullIndex = -1 THEN Null
    ELSE Entry(Latin1Decode(Slice(data, 0, nullIndex)),
               Latin1Decode(Slice(data, nullIndex + 1, Len(data))))

\* A faulty variant, kept for comparison: the flag and the method are not skipped
parseITextChunkNoSkip(data) ==
    LET keywordEnd == IndexOf(data, 0, 0) IN
    IF keywordEnd = -1 THEN Null
    ELSE
      LET langTagEnd == IndexOf(data, 0, keywordEnd + 1) IN
      IF langTagEnd = -1 THEN Null
      ELSE
        LET translatedKeywordEnd == IndexOf(data, 0, langTagEnd + 1) IN
        IF translatedKeywordEnd = -1 THEN Null
        ELSE Entry(Latin1Decode(Slice(data, 0, keywordEnd)),
                   Utf8Decode(Slice(data, translatedKeywordEnd + 1, Len(data))))

parseITextChunk(data) ==
    LET keywordEnd == IndexOf(data, 0, 0) IN
    IF keywordEnd = -1 THEN Null
    ELSE
      LET keyword == Latin1Decode(Slice(data, 0, keywordEnd))
          \* compressionFlag = bytes[offset++]; compressionMethod = bytes[offset++]
          afterFlags == keywordEnd + 1 + 2
          langTagEnd == IndexOf(data, 0, afterFlags)
      IN
      IF langTagEnd = -1 THEN Null
      ELSE
        LET translatedKeywordEnd == IndexOf(data, 0, langTagEnd + 1) IN
        IF translatedKeywordEnd = -1 THEN Null
        ELSE Entry(keyword,
                   Utf8Decode(Slice(data, translatedKeywordEnd + 1, Len(data))))

\* the text returned when DecompressionStream is undefined
Placeholder ==
    <<
      91, 67, 111, 109, 112, 114, 101, 115, 115, 101, 100, 32,
      100, 97, 116, 97, 32, 45, 32, 100, 101, 99, 111, 109,
      112, 114, 101, 115, 115, 105, 111, 110, 32, 110, 111, 116,
      32, 115, 117, 112, 112, 111, 114, 116, 101, 100, 93
    >>


\* parseZTextChunk up to its await:
\*   [kind |-> "return", value |-> Null or an entry]
\*   [kind |-> "await", keyword, compressedData]  suspended in reader.read()
parseZTextChunkSync(data, env) ==
    LET nullIndex == IndexOf(data, 0, 0) IN
    IF nullIndex = -1 THEN [kind |-> "return", value |-> Null]
    ELSE
      LET keyword == Latin1Decode(Slice(data, 0, nullIndex)) IN
      \* bytes[nullIndex + 1] is undefined past the end, and undefined !== 0
      IF ~InView(data, nullIndex + 1, 1) \/ GetUint8(data, nullIndex + 1) # 0
      THEN [kind |-> "return", value |-> Null]
      ELSE IF env.hasDS
           THEN [kind |-> "await", keyword |-> keyword,
                 compressedData |-> Slice(data, nullIndex + 2, Len(data))]
      ELSE [kind |-> "return", value |-> Entry(keyword, Placeholder)]

\* parseZTextChunk from the await on: the text is the decoding of the one
\* piece read; decode(undefined) is the empty string; a rejection is caught
parseZTextChunkResume(keyword, compressedData, env) ==
    LET result == ReaderRead(compressedData, env) IN
    IF result.kind = "rejected" THEN Null
    ELSE IF result.kind = "done" THEN Entry(keyword, <<>>)
    ELSE Entry(keyword, Latin1Decode(result.value))

(***************************************************************************)
(* The metadata record and processChunk.                                   *)
(***************************************************************************)
\* a JavaScript object literal {}: a function from its keys
EmptyObject == [k \in {} |-> 0]
SetProperty(obj, key, val) ==
    [k \in DOMAIN obj \cup {key} |-> IF k = key THEN val ELSE obj[k]]

\* const metadata = { textChunks: {}, technicalInfo: {}, rawChunks: [] }
NewMetadata ==
    [textChunks |-> EmptyObject, technicalInfo |-> EmptyObject, rawChunks |-> <<>>]

\* if (textData) { metadata.textChunks[textData.keyword] = textData.text; }
StoreText(metadata, parsed) ==
    With(parsed, LAMBDA textData :
      IF textData.present
      THEN [metadata EXCEPT !.textChunks =
              SetProperty(@, textData.keyword, textData.text)]
      ELSE metadata)

\* case 'IHDR': the seven assignments in order; a read outside the payload
\* throws and leaves the assignments made before it
IhdrFields ==
    << [name |-> "width", at |-> 0, size |-> 4],
       [name |-> "height", at |-> 4, size |-> 4],
       [name |-> "bitDepth", at |-> 8, size |-> 1],
       [name |-> "colorType", at |-> 9, size |-> 1],
       [name |-> "compression", at |-> 10, size |-> 1],
       [name |-> "filter", at |-> 11, size |-> 1],
       [name |-> "interlace", at |-> 12, size |-> 1] >>

RECURSIVE IhdrAssign(_, _, _)
IhdrAssign(info, data, k) ==
    IF k > Len(IhdrFields) THEN [info |-> info, thrown |-> FALSE]
    ELSE
      LET f == IhdrFields[k] IN
      IF ~InView(data, f.at, f.size) THEN [info |-> info, thrown |-> TRUE]
      ELSE IhdrAssign(
             SetProperty(info, f.name,
                         IF f.size = 4 THEN GetUint32(data, f.at)
                         ELSE GetUint8(data, f.at)),
             data, k + 1)

\* case 'pHYs', under data.byteLength >= 9
PhysicalDimensions(data) ==
    [pixelsPerUnitX |-> GetUint32(data, 0),
     pixelsPerUnitY |-> GetUint32(data, 4),
     unit |-> IF GetUint8(data, 8) = 1 THEN "meters" ELSE "unknown"]

\* case 'tIME', under data.byteLength >= 7: `${year}-${month}-${day} ...`
LastModified(data) ==
    NumToString(GetUint16(data, 0)) \o <<45>>
      \o PadStart2(NumToString(GetUint8(data, 2))) \o <<45>>
      \o PadStart2(NumToString(GetUint8(data, 3))) \o <<32>>
      \o PadStart2(NumToString(GetUint8(data, 4))) \o <<58>>
      \o PadStart2(NumToString(GetUint8(data, 5))) \o <<58>>
      \o PadStart2(NumToString(GetUint8(data, 6)))

NoPending == [keyword |-> <<>>, compressedData |-> <<>>]

\* processChunk up to its first await or its end:
\*   kind "done"    it ran to its end
\*   kind "thrown"  it threw (its promise rejects)
\*   kind "await"   it is suspended in parseZTextChunk's reader.read()
ProcessChunkSync(type, data, metadata, env) ==
    LET Done(m) == [kind |-> "done", metadata |-> m, pending |-> NoPending] IN
    IF type = IHDR THEN
      LET r == IhdrAssign(metadata.technicalInfo, data, 1) IN
      [kind |-> IF r.thrown THEN "thrown" ELSE "done",
       metadata |-> [metadata EXCEPT !.technicalInfo = r.info],
       pending |-> NoPending]
    ELSE IF type = tEXt THEN Done(StoreText(metadata, parseTextChunk(data)))
    ELSE IF type = iTXt THEN Done(StoreText(metadata, parseITextChunk(data)))
    ELSE IF type = zTXt THEN
      LET z == parseZTextChunkSync(data, env) IN
      IF z.kind = "return" THEN Done(StoreText(metadata, z.value))
      ELSE [kind |-> "await", metadata |-> metadata,
            pending |-> [keyword |-> z.keyword,
                         compressedData |-> z.compressedData]]
    ELSE IF type = pHYs THEN
      IF Len(data) >= 9
      THEN Done([metadata EXCEPT !.technicalInfo =
                   SetProperty(@, "physicalDimensions", PhysicalDimensions(data))])
      ELSE Done(metadata)
    ELSE IF type = tIME THEN
      IF Len(data) >= 7
      THEN Done([metadata EXCEPT !.technicalInfo =
                   SetProperty(@, "lastModified", LastModified(data))])
      ELSE Done(metadata)
    ELSE Done(metadata)

\* processChunk from reader.read() on
ProcessChunkResume(pending, metadata, env) ==
    StoreText(metadata,
              parseZTextChunkResume(pending.keyword, pending.compressedData, env))

(***************************************************************************)
(* parsePNGMetadata.  The locals of one call:                              *)
(*   pc        "sig"      about to check the signature                     *)
(*             "loop"     at the while condition                           *)
(*             "reading"  in await processChunk, which awaits reader.read()*)
(*             "chunk"    in await processChunk, which has ended           *)
(*             "returned" return metadata                                  *)
(*             "thrown"   the call's promise is rejected                   *)
(*   offset, chunkType, chunkLength: the locals of these names             *)
(*   pending: the locals of the suspended parseZTextChunk                  *)
(*   metadata: the record the call builds                                  *)
(***************************************************************************)
StartLocals ==
    [pc |-> "sig", offset |-> 0, chunkType |-> <<>>, chunkLength |-> 0,
     pending |-> NoPending, metadata |-> NewMetadata]

\* for (i < 8) if (dataView.getUint8(i) !== pngSignature[i]) throw: a byte
\* that differs throws 'Invalid PNG file', a byte past the end a RangeError
\* A faulty variant, kept for comparison: the loop stops one byte early
SignatureOkSevenBytes(buf) ==
    \A i \in 0 .. SigLen - 2 : InView(buf, i, 1) /\ GetUint8(buf, i) = pngSignature[i + 1]

SignatureOk(buf) ==
    \A i \in 0 .. SigLen - 1 : InView(buf, i, 1) /\ GetUint8(buf, i) = pngSignature[i + 1]

CheckSignatureStep(buf, l) ==
    IF SignatureOk(buf) THEN [l EXCEPT !.pc = "loop", !.offset = SigLen]
    ELSE [l EXCEPT !.pc = "thrown"]

\* one pass from the while condition to `await this.processChunk(...)`
ReadChunkStep(buf, l, env) ==
    IF ~(l.offset < Len(buf) - LoopMargin) THEN [l EXCEPT !.pc = "returned"]
    ELSE
      LET chunkLength == GetUint32(buf, l.offset)
          chunkType == readString(buf, l.offset + 4, 4)
      IN
      With(Slice(buf, l.offset + 8, l.offset + 8 + chunkLength), LAMBDA chunkData :
      \* const crc = dataView.getUint32(offset + 8 + chunkLength)
      IF ~InView(buf, l.offset + 8 + chunkLength, 4)
      THEN [l EXCEPT !.pc = "thrown", !.chunkType = chunkType,
                     !.chunkLength = chunkLength]
      ELSE
        LET pushed == [l.metadata EXCEPT !.rawChunks =
                         Append(@, [type |-> chunkType, length |-> chunkLength,
                                    offset |-> l.offset])]
        IN  With(ProcessChunkSync(chunkType, chunkData, pushed, env), LAMBDA p :
              [l EXCEPT !.pc = CASE p.kind = "done" -> "chunk"
                                 [] p.kind = "await" -> "reading"
                                 [] OTHER -> "thrown",
                        !.chunkType = chunkType,
                        !.chunkLength = chunkLength,
                        !.pending = p.pending,
                        !.metadata = p.metadata]))

\* reader.read() settles and processChunk runs to its end
ReadResolveStep(l, env) ==
    [l EXCEPT !.pc = "chunk",
              !.pending = NoPending,
              !.metadata = ProcessChunkResume(l.pending, l.metadata, env)]

\* A faulty variant, kept for comparison: no break at IEND
AdvanceStepNoBreak(l) ==
    [l EXCEPT !.pc = "loop",
              !.offset = l.offset + ChunkOverhead + l.chunkLength]

\* A faulty variant, kept for comparison: the checksum is not skipped
AdvanceStepNoChecksum(l) ==
    [l EXCEPT !.pc = IF l.chunkType = IEND THEN "returned" ELSE "loop",
              !.offset = l.offset + 8 + l.chunkLength]

\* A faulty variant, kept for comparison: only the payload is skipped
AdvanceStepPayloadOnly(l) ==
    [l EXCEPT !.pc = IF l.chunkType = IEND THEN "returned" ELSE "loop",
              !.offset = l.offset + l.chunkLength]

\* offset += 12 + chunkLength; if (chunkType === 'IEND') break;
AdvanceStep(l) ==
    [l EXCEPT !.pc = IF l.chunkType = IEND THEN "returned" ELSE "loop",
              !.offset = l.offset + ChunkOverhead + l.chunkLength]

Ended(l) == l.pc \in {"returned", "thrown"}

RunStep(buf, l, env) ==
    CASE l.pc = "sig" -> CheckSignatureStep(buf, l)
      [] l.pc = "loop" -> ReadChunkStep(buf, l, env)
      [] l.pc = "reading" -> ReadResolveStep(l, env)
      [] l.pc = "chunk" -> AdvanceStep(l)
      [] OTHER -> l

RECURSIVE RunToEnd(_, _, _)
RunToEnd(buf, l, env) ==
    IF Ended(l) THEN l ELSE RunToEnd(buf, RunStep(buf, l, env), env)

\* the outcome of `await this.parsePNGMetadata(buffer)` run on its own:
\* [thrown |-> TRUE] or [thrown |-> FALSE, metadata |-> the record]
parsePNGMetadata(buf, env) ==
    LET l == RunToEnd(buf, StartLocals, env) IN
    IF l.pc = "thrown" THEN [thrown |-> TRUE]
    ELSE [thrown |-> FALSE, metadata |-> l.metadata]

(***************************************************************************)
(* The buffers drawn.  A chunk is its length (big-endian), its type, its   *)
(* payload and four checksum bytes, which the walk reads and never checks. *)
(***************************************************************************)
U32Bytes(n) ==
    <<n \div 16777216, (n \div 65536) % 256, (n \div 256) % 256, n % 256>>

Chunk(type, data) == U32Bytes(Len(data)) \o type \o data \o <<0, 0, 0, 0>>

\* every sequence over S of length at most n
Seqs(S, n) == UNION {[1 .. k -> S] : k \in 0 .. n}

Prefixes(s) == {SubSeq(s, 1, k) : k \in 0 .. Len(s)}

\* a zlib stream of stored blocks, one per element of `blocks`
RECURSIVE StoredBlocks(_, _)
StoredBlocks(blocks, k) ==
    IF k > Len(blocks) THEN <<>>
    ELSE LET d == blocks[k] IN
         <<IF k = Len(blocks) THEN 1 ELSE 0,
           Len(d) % 256, Len(d) \div 256,
           255 - (Len(d) % 256), 255 - (Len(d) \div 256)>>
           \o d \o StoredBlocks(blocks, k + 1)

RECURSIVE Flatten(_, _)
Flatten(blocks, k) ==
    IF k > Len(blocks) THEN <<>> ELSE blocks[k] \o Flatten(blocks, k + 1)

ZlibStream(blocks) ==
    <<120, 1>> \o StoredBlocks(blocks, 1) \o U32Bytes(Adler32(Flatten(blocks, 1)))

InflatedTexts == Seqs({65, 66}, MaxInflated)

ValidStreams ==
    {ZlibStream(<<d>>) : d \in InflatedTexts} \cup {ZlibStream(<<<<65>>, <<66>>>>)}

\* streams with a wrong checksum, cut short, followed by junk, with a
\* wrong header, with a reserved block type
BrokenStreams ==
    LET v == ZlibStream(<<<<65, 66>>>>) IN
    { [v EXCEPT ![Len(v)] = (@ + 1) % 256],
      SubSeq(v, 1, Len(v) - 1),
      SubSeq(v, 1, 8),
      SubSeq(v, 1, 2),
      v \o <<0>>,
      <<0, 0>> \o SubSeq(v, 3, Len(v)),
      <<120, 1, 7>>,
      <<>> }

TextPayloads == Seqs({0, 65, 128}, MaxTextLen)

\* UTF-8 texts: U+00E9, U+7D20 U+6750, a byte order mark, ill-formed bytes
Utf8Texts ==
    { <<195, 169>>, <<231, 180, 160, 230, 157, 144>>, <<239, 187, 191, 65>>,
      <<195>>, <<169, 65>>, <<224, 159, 65>> }

ITextPayloads ==
    Seqs({0, 65}, MaxITextLen)
      \cup {<<67, 0, f, 0, 0, 0>> \o t : f \in {0, 1}, t \in Utf8Texts}

ZTextPayloads ==
    UNION { Prefixes(k \o <<0, 0>>)
              \cup {k \o <<0, m>> \o z : m \in {0, 1}, z \in ValidStreams}
              \cup {k \o <<0, 0>> \o z : z \in BrokenStreams}
            : k \in Seqs({65}, 1) }

IhdrPayload == U32Bytes(100) \o U32Bytes(50) \o <<8, 2, 0, 0, 0>>
IhdrPayloads == Prefixes(IhdrPayload \o <<9>>)

PhysPayloads ==
    UNION {Prefixes(U32Bytes(2835) \o U32Bytes(2834) \o <<u, 9>>) : u \in {0, 1}}

TimePayloads == Prefixes(<<7, 232, 12, 3, 4, 5, 59, 9>>)

IDAT == <<73, 68, 65, 84>>

Signed(chunks) == pngSignature \o chunks

\* one chunk of each kind with each payload drawn for the kind, alone and
\* followed by an IEND chunk
OneChunk ==
    {Chunk(tEXt, p) : p \in TextPayloads}
      \cup {Chunk(iTXt, p) : p \in ITextPayloads}
      \cup {Chunk(zTXt, p) : p \in ZTextPayloads}
      \cup {Chunk(IHDR, p) : p \in IhdrPayloads}
      \cup {Chunk(pHYs, p) : p \in PhysPayloads}
      \cup {Chunk(tIME, p) : p \in TimePayloads}
      \cup {Chunk(IDAT, <<1, 2>>), Chunk(IEND, <<>>), Chunk(IEND, <<65, 0, 66>>)}

OneChunkBuffers ==
    {Signed(c) : c \in OneChunk} \cup {Signed(c \o Chunk(IEND, <<>>)) : c \in OneChunk}

\* the chunks that buffers of several chunks are built from
Catalogue ==
    { Chunk(IHDR, IhdrPayload),
      Chunk(IHDR, SubSeq(IhdrPayload, 1, 9)),
      Chunk(tEXt, <<65, 0, 66>>),
      Chunk(tEXt, <<65, 0, 67, 0>>),
      Chunk(tEXt, <<66>>),
      Chunk(zTXt, <<65, 0, 0>> \o ZlibStream(<<<<66, 65>>>>)),
      Chunk(pHYs, U32Bytes(1) \o U32Bytes(2) \o <<1>>),
      Chunk(IDAT, <<0>>),
      Chunk(IEND, <<>>) }

RECURSIVE ChunkSeqs(_, _)
ChunkSeqs(C, n) ==
    IF n = 0 THEN {<<>>}
    ELSE LET shorter == ChunkSeqs(C, n - 1)
         IN  shorter \cup {s \o c : s \in shorter, c \in C}

ManyChunkBuffers == {Signed(s) : s \in ChunkSeqs(Catalogue, MaxChunks)}

\* an IEND chunk between two chunks
IendInsideBuffers ==
    { Signed(a \o Chunk(IEND, e) \o b)
      : a \in Catalogue, b \in Catalogue, e \in {<<>>, <<66, 0, 65>>} }

\* buffers cut off at every byte position
CutCatalogue ==
    { Chunk(IHDR, IhdrPayload), Chunk(tEXt, <<65, 0, 66>>), Chunk(IEND, <<>>) }

CutBuffers ==
    UNION {Prefixes(Signed(s)) : s \in ChunkSeqs(CutCatalogue, MaxChunks)}

\* a signature with one byte changed
BadSignatureBuffers ==
    { [pngSignature EXCEPT ![i] = 0] \o Chunk(IHDR, IhdrPayload) \o Chunk(IEND, <<>>)
      : i \in 1 .. SigLen }

\* chunk headers whose length is not the length of what follows; a length
\* of 2^31 or more behaves as 2^30 does and is not drawn
WrongLengthBuffers ==
    { Signed(Chunk(tEXt, <<65, 0, 66>>) \o len \o type \o tail)
      : len \in {<<0, 0, 0, 0>>, <<0, 0, 0, 2>>, <<0, 0, 1, 0>>, <<64, 0, 0, 0>>},
        type \in {tEXt, IHDR, IEND},
        tail \in {<<>>, <<65>>, <<65, 0, 66, 0, 0, 0, 0>>,
                  <<65, 0, 66, 0, 0, 0, 0>> \o Chunk(tEXt, <<66, 0, 66>>)} }
      \cup { Signed(Chunk(IDAT, <<>>) \o <<64, 0, 0, 0>> \o tEXt \o <<65>>) }

Buffers ==
    OneChunkBuffers \cup ManyChunkBuffers \cup IendInsideBuffers \cup CutBuffers
      \cup BadSignatureBuffers \cup WrongLengthBuffers

\* the runtimes: DecompressionStream undefined, or defined with the size
\* of its output pieces and what it does with output before a data error
Envs ==
    {[hasDS |-> FALSE, pieceSize |-> 1, eager |-> FALSE]}
      \cup {[hasDS |-> TRUE, pieceSize |-> p, eager |-> e]
            : p \in 1 .. MaxPiece, e \in BOOLEAN}

(***************************************************************************)
(* State.                                                                  *)
(***************************************************************************)
VARIABLES
    env,      \* the runtime
    calls,    \* calls[c]: the parsePNGMetadata call c: its buffer, its locals
              \* and `record`, the heap address of its metadata object
    heap,     \* heap[a]: the metadata object at address a
    uploadedImages,     \* this.uploadedImages
    currentImageIndex,  \* this.currentImageIndex
    dom,      \* the page: what is visible, the thumbnails, the image shown,
              \* the error message
    uploads,  \* uploads[u]: the processFiles call u: its pngFiles and locals
    submitted,  \* the number of files handed to processFiles so far
    sinceReset  \* history: resetAll has run and processFiles has not been
                \* called since

pvars == <<env, calls, heap>>
vvars == <<uploadedImages, currentImageIndex, dom, uploads, submitted, sinceReset>>
vars == <<env, calls, heap, uploadedImages, currentImageIndex, dom, uploads, submitted,
          sinceReset>>

Calls == 1 .. MaxCalls

Idle == [pc |-> "idle", buffer |-> <<>>, offset |-> 0, chunkType |-> <<>>,
         chunkLength |-> 0, pending |-> NoPending, record |-> 0]

\* the locals of call c as the record the step operators work on
Locals(c) ==
    [pc |-> calls[c].pc, offset |-> calls[c].offset,
     chunkType |-> calls[c].chunkType, chunkLength |-> calls[c].chunkLength,
     pending |-> calls[c].pending, metadata |-> heap[calls[c].record]]

\* call c's locals become l
Store(c, l) ==
    /\ calls' = [calls EXCEPT ![c] =
                   [pc |-> l.pc, buffer |-> calls[c].buffer, offset |-> l.offset,
                    chunkType |-> l.chunkType, chunkLength |-> l.chunkLength,
                    pending |-> l.pending, record |-> calls[c].record]]
    /\ heap' = [heap EXCEPT ![calls[c].record] = l.metadata]

\* A faulty variant, kept for comparison: one metadata object for all calls
SharedRecord(h) == 1

\* `const metadata = {...}` makes a new object: an address not in use
FreshRecord(h) == Cardinality(DOMAIN h) + 1

ParseInit ==
    /\ env \in Envs
    /\ calls = [c \in Calls |-> Idle]
    /\ heap = EmptyObject

\* parsePNGMetadata(buffer) is called: its DataView and its metadata object
Call(c, B) ==
    /\ calls[c].pc = "idle"
    /\ \E buf \in B :
         LET a == FreshRecord(heap) IN
         /\ calls' = [calls EXCEPT ![c] =
                        [Idle EXCEPT !.pc = "sig", !.buffer = buf, !.record = a]]
         /\ heap' = SetProperty(heap, a, NewMetadata)
    /\ UNCHANGED <<env, vvars>>

CheckSignature(c) ==
    /\ calls[c].pc = "sig"
    /\ \E l \in {CheckSignatureStep(calls[c].buffer, Locals(c))} : Store(c, l)
    /\ UNCHANGED <<env, vvars>>

ReadChunk(c) ==
    /\ calls[c].pc = "loop"
    /\ \E buf \in {calls[c].buffer}, l \in {Locals(c)} :
         \E m \in {ReadChunkStep(buf, l, env)} : Store(c, m)
    /\ UNCHANGED <<env, vvars>>

ReadResolve(c) ==
    /\ calls[c].pc = "reading"
    /\ \E l \in {Locals(c)} : \E m \in {ReadResolveStep(l, env)} : Store(c, m)
    /\ UNCHANGED <<env, vvars>>

Advance(c) ==
    /\ calls[c].pc = "chunk"
    /\ \E l \in {AdvanceStep(Locals(c))} : Store(c, l)
    /\ UNCHANGED <<env, vvars>>

ParseStep(c, B) ==
    \/ Call(c, B)
    \/ CheckSignature(c)
    \/ ReadChunk(c)
    \/ ReadResolve(c)
    \/ Advance(c)

(***************************************************************************)
(* The viewer: processFiles, updateImageList, showFirstImage, showImage,   *)
(* resetAll, showError.                                                    *)
(***************************************************************************)
Uploads == 1 .. MaxUploads

PngType == "image/png"

\* the files a user can drop or select
ViewerFiles ==
    { [name |-> "a.png", type |-> PngType,
       buffer |-> Signed(Chunk(IHDR, IhdrPayload) \o Chunk(tEXt, <<65, 0, 66>>)
                           \o Chunk(IEND, <<>>))],
      [name |-> "b.png", type |-> PngType,
       buffer |-> [pngSignature EXCEPT ![1] = 0] \o Chunk(IEND, <<>>)],
      [name |-> "c.png", type |-> PngType,
       buffer |-> Signed(Chunk(IHDR, SubSeq(IhdrPayload, 1, 9)) \o Chunk(IEND, <<>>))],
      [name |-> "n.txt", type |-> "text/plain", buffer |-> <<65>>] }

NoImage == [name |-> "", metadata |-> NewMetadata]
NoError == [kind |-> "none", name |-> ""]
\* 'PNG画像ファイルを選択してください。'
SelectPngError == [kind |-> "select", name |-> ""]
\* `${file.name}の処理中にエラーが発生しました。`
FileError(name) == [kind |-> "file", name |-> name]

\* reader.readAsDataURL(file): the file's type and bytes as a data URL
DataURL(file) == [mime |-> file.type, bytes |-> file.buffer]

IdleUpload == [pc |-> "idle", pngFiles |-> <<>>, i |-> 0,
               imageData |-> <<>>, metadata |-> NewMetadata]

\* the viewer's fields and its page, as the record the methods work on
View == [uploadedImages |-> uploadedImages,
         currentImageIndex |-> currentImageIndex,
         dom |-> dom]

SetView(v) ==
    /\ uploadedImages' = v.uploadedImages
    /\ currentImageIndex' = v.currentImageIndex
    /\ dom' = v.dom

\* updateImageList: with no image the section is hidden and the list is
\* left as it is; else one item per image, which keeps its index for its
\* click handler
updateImageList(v) ==
    IF Len(v.uploadedImages) = 0
    THEN [v EXCEPT !.dom.imageListSection = FALSE]
    ELSE [v EXCEPT !.dom.imageListSection = TRUE,
                   !.dom.imageList =
                     [k \in 1 .. Len(v.uploadedImages) |->
                        [index |-> k - 1,
                         name |-> v.uploadedImages[k].name,
                         active |-> (k - 1 = v.currentImageIndex)]]]

\* showImage(index); displayImageInfo and displayMetadata fill the page
\* from the image
showImage(v, index) ==
    IF index < 0 \/ index >= Len(v.uploadedImages) THEN v
    ELSE LET w == updateImageList([v EXCEPT !.currentImageIndex = index]) IN
         [w EXCEPT !.dom.shown =
                     [name |-> v.uploadedImages[index + 1].name,
                      metadata |-> v.uploadedImages[index + 1].metadata],
                   !.dom.pnginfoSection = TRUE]

showFirstImage(v) ==
    IF Len(v.uploadedImages) > 0 THEN showImage(v, 0) ELSE v

\* showError: the messages on the page are removed and this one is added
showError(v, message) == [v EXCEPT !.dom.errorMessage = message]

\* A faulty variant, kept for comparison: currentImageIndex is left as it is
resetAllViewKeepsIndex(v) ==
    [v EXCEPT !.uploadedImages = <<>>,
              !.dom.imageListSection = FALSE,
              !.dom.pnginfoSection = FALSE,
              !.dom.errorMessage = NoError]

\* resetAll
resetAllView(v) ==
    [v EXCEPT !.uploadedImages = <<>>,
              !.currentImageIndex = -1,
              !.dom.imageListSection = FALSE,
              !.dom.pnginfoSection = FALSE,
              !.dom.errorMessage = NoError]

\* the end of one pass of `for (const file of pngFiles)`: the next file,
\* or behind the loop updateImageList() and showFirstImage()
\* st = [u |-> the call's locals, v |-> the view]
LoopNext(st) ==
    IF st.u.i < Len(st.u.pngFiles)
    THEN [st EXCEPT !.u.pc = "read", !.u.i = @ + 1,
                    !.u.imageData = <<>>, !.u.metadata = NewMetadata]
    ELSE [u |-> [st.u EXCEPT !.pc = "done",
                             !.imageData = <<>>, !.metadata = NewMetadata],
          v |-> showFirstImage(updateImageList(st.v))]

\* A faulty variant, kept for comparison: the error leaves the loop and processFiles
FileFailedAborts(st) ==
    LET file == st.u.pngFiles[st.u.i] IN
    [u |-> [st.u EXCEPT !.pc = "done", !.imageData = <<>>, !.metadata = NewMetadata],
     v |-> showError(st.v, FileError(file.name))]

\* catch (error) { console.error(...); this.showError(...) }, then the
\* next pass
FileFailed(st) ==
    LET file == st.u.pngFiles[st.u.i] IN
    LoopNext([st EXCEPT !.v = showError(st.v, FileError(file.name))])

\* this.uploadedImages.push({file, metadata, preview, name}), then the
\* next pass
FilePushed(st) ==
    LET file == st.u.pngFiles[st.u.i] IN
    LoopNext([st EXCEPT !.v.uploadedImages =
                Append(@, [file |-> file, metadata |-> st.u.metadata,
                           preview |-> DataURL(file), name |-> file.name])])

Commit(u, st) ==
    /\ uploads' = [uploads EXCEPT ![u] = st.u]
    /\ SetView(st.v)

ViewerInit ==
    /\ uploadedImages = <<>>
    /\ currentImageIndex = -1
    /\ dom = [imageListSection |-> FALSE, imageList |-> <<>>,
              pnginfoSection |-> FALSE, shown |-> NoImage,
              errorMessage |-> NoError]
    /\ uploads = [u \in Uploads |-> IdleUpload]
    /\ submitted = 0
    /\ sinceReset = FALSE

\* processFiles(files) is called (a drop, a file selection) and runs to its
\* first await or, with no PNG file, to its return
Upload(u) ==
    /\ uploads[u].pc = "idle"
    /\ \E files \in Seqs(ViewerFiles, MaxFiles - submitted) :
         LET pngFiles == SelectSeq(files, LAMBDA f : f.type = PngType) IN
         /\ submitted' = submitted + Len(files)
         /\ IF Len(pngFiles) = 0
            THEN Commit(u, [u |-> [IdleUpload EXCEPT !.pc = "done"],
                            v |-> showError(View, SelectPngError)])
            ELSE Commit(u, [u |-> [IdleUpload EXCEPT !.pc = "read", !.i = 1,
                                                     !.pngFiles = pngFiles],
                            v |-> View])
    /\ sinceReset' = FALSE
    /\ UNCHANGED pvars

\* await this.readFileAsArrayBuffer(file) settles: the FileReader loads
\* the file or fails
ReadSettles(u) ==
    /\ uploads[u].pc = "read"
    /\ \E ok \in BOOLEAN :
         LET st == [u |-> uploads[u], v |-> View] IN
         IF ok
         THEN Commit(u, [st EXCEPT !.u.pc = "parse",
                           !.u.imageData = st.u.pngFiles[st.u.i].buffer])
         ELSE Commit(u, FileFailed(st))
    /\ UNCHANGED <<pvars, submitted, sinceReset>>

\* await this.parsePNGMetadata(imageData) settles
ParseSettles(u) ==
    /\ uploads[u].pc = "parse"
    /\ LET st == [u |-> uploads[u], v |-> View]
           r == parsePNGMetadata(uploads[u].imageData, env)
       IN  IF r.thrown THEN Commit(u, FileFailed(st))
           ELSE Commit(u, [st EXCEPT !.u.pc = "preview", !.u.metadata = r.metadata])
    /\ UNCHANGED <<pvars, submitted, sinceReset>>

\* await this.createImagePreview(file) settles
PreviewSettles(u) ==
    /\ uploads[u].pc = "preview"
    /\ \E ok \in BOOLEAN :
         LET st == [u |-> uploads[u], v |-> View] IN
         IF ok THEN Commit(u, FilePushed(st)) ELSE Commit(u, FileFailed(st))
    /\ UNCHANGED <<pvars, submitted, sinceReset>>

\* a click on a thumbnail, or any other call of showImage
ShowImage ==
    /\ \E index \in -1 .. MaxFiles : SetView(showImage(View, index))
    /\ UNCHANGED <<pvars, uploads, submitted, sinceReset>>

\* a click on the reset button
ResetAll ==
    /\ SetView(resetAllView(View))
    /\ sinceReset' = TRUE
    /\ UNCHANGED <<pvars, uploads, submitted>>

\* setTimeout(() => errorDiv.remove(), 5000) of the message on the page
ErrorExpires ==
    /\ dom.errorMessage # NoError
    /\ dom' = [dom EXCEPT !.errorMessage = NoError]
    /\ UNCHANGED <<pvars, uploadedImages, currentImageIndex, uploads, submitted,
                   sinceReset>>

\* one call of parsePNGMetadata on any of the buffers
Init == ParseInit /\ ViewerInit
Next == ParseStep(1, Buffers)
Spec == Init /\ [][Next]_vars

\* the same call, whose steps are taken: the synchronous code between two
\* awaits runs to its end, and a pending reader.read() settles
LiveBuffers ==
    ManyChunkBuffers \cup IendInsideBuffers \cup CutBuffers
      \cup BadSignatureBuffers \cup WrongLengthBuffers

NextLive == ParseStep(1, LiveBuffers)
SpecLive ==
    /\ Init /\ [][NextLive]_vars
    /\ WF_vars(CheckSignature(1))
    /\ WF_vars(ReadChunk(1))
    /\ WF_vars(ReadResolve(1))
    /\ WF_vars(Advance(1))

\* several calls of parsePNGMetadata in flight at once, on these buffers
ConcBuffers ==
    { Signed(Chunk(zTXt, <<65, 0, 0>> \o ZlibStream(<<<<66, 65>>>>))
               \o Chunk(tEXt, <<66, 0, 67>>)),
      Signed(Chunk(tEXt, <<65, 0, 66>>) \o Chunk(IEND, <<>>)),
      Signed(Chunk(IHDR, SubSeq(IhdrPayload, 1, 9))),
      [pngSignature EXCEPT ![2] = 0] }

NextConc == \E c \in Calls : ParseStep(c, ConcBuffers)
SpecConc == Init /\ [][NextConc]_vars

\* the viewer: uploads, clicks and resets in any order
NextViewer ==
    \/ \E u \in Uploads : \/ Upload(u)
                          \/ ReadSettles(u)
                          \/ ParseSettles(u)
                          \/ PreviewSettles(u)
    \/ ShowImage
    \/ ResetAll
    \/ ErrorExpires
\* the files of the viewer hold no compressed text, so that of the runtime
\* only the presence of DecompressionStream is varied
InitViewer == Init /\ env.pieceSize = 1 /\ ~env.eager
SpecViewer == InitViewer /\ [][NextViewer]_vars

(***************************************************************************)
(* Notions the properties are stated in.                                   *)
(***************************************************************************)
Active(c) == calls[c].pc # "idle"
Meta(c) == heap[calls[c].record]

HasSignature(buf) == Len(buf) >= 8 /\ SubSeq(buf, 1, 8) = pngSignature

\* the payload of the chunk at offset o whose length field is n, when the
\* whole chunk lies in the buffer
Payload(buf, o, n) == SubSeq(buf, o + 9, o + 8 + n)

Last(s) == s[Len(s)]

\* call c passes from the while condition into processChunk for a chunk
\* of the given type, whose descriptor it has pushed
Dispatched(c, type) ==
    /\ calls[c].pc = "loop"
    /\ calls'[c].pc \in {"chunk", "reading", "thrown"}
    /\ calls'[c].chunkType = type
    /\ Len(heap'[calls[c].record].rawChunks) = Len(Meta(c).rawChunks) + 1

\* where the whole chunks of buf end, walking from offset o and stopping
\* behind an IEND chunk
RECURSIVE WholeChunks(_, _)
WholeChunks(buf, o) ==
    IF o + 12 > Len(buf) THEN [end |-> o, iend |-> FALSE]
    ELSE LET n == GetUint32(buf, o) IN
         IF o + 12 + n > Len(buf) THEN [end |-> o, iend |-> FALSE]
         ELSE IF SubSeq(buf, o + 5, o + 8) = IEND
              THEN [end |-> o + 12 + n, iend |-> TRUE]
         ELSE WholeChunks(buf, o + 12 + n)

\* buf has the signature and ends inside a chunk
CutInsideChunk(buf) ==
    /\ HasSignature(buf)
    /\ LET w == WholeChunks(buf, 8) IN ~w.iend /\ w.end < Len(buf)

(***************************************************************************)
(* C1.  A buffer whose first 8 bytes are not the signature (a buffer       *)
(* shorter than 8 bytes too) makes parsePNGMetadata throw before the chunk *)
(* walk starts: the call never reaches the loop, never returns, and its    *)
(* metadata object holds no descriptor, no technical field, no text.       *)
(***************************************************************************)
C1_BadSignatureThrows ==
    \A c \in Calls :
      (Active(c) /\ ~HasSignature(calls[c].buffer)) =>
        /\ calls[c].pc \in {"sig", "thrown"}
        /\ calls[c].offset = 0
        /\ Meta(c) = NewMetadata

C1_Witness ==
    \E c \in Calls :
      /\ calls[c].pc = "thrown"
      /\ Len(calls[c].buffer) \in 1 .. 7
      /\ calls[c].buffer = SubSeq(pngSignature, 1, Len(calls[c].buffer))

(***************************************************************************)
(* C2.  A buffer with the signature that is cut off inside a chunk does    *)
(* not make parsePNGMetadata throw: the call returns the record built from *)
(* the chunks before the cut.                                              *)
(***************************************************************************)
C2_CutBufferReturns ==
    \A c \in Calls :
      (Active(c) /\ CutInsideChunk(calls[c].buffer)) =>
        /\ calls[c].pc # "thrown"
        /\ calls[c].pc = "returned" =>
             LET whole == SubSeq(calls[c].buffer, 1, WholeChunks(calls[c].buffer, 8).end)
             IN  Meta(c) = parsePNGMetadata(whole, env).metadata

(***************************************************************************)
(* C3.  A failure while processChunk interprets a payload never leaves     *)
(* processChunk: once a chunk's descriptor is pushed the call does not     *)
(* throw at that chunk, and an IHDR chunk whose payload is shorter than    *)
(* its 13 bytes adds nothing to technicalInfo.                             *)
(***************************************************************************)
C3_ProcessChunkNeverThrows ==
    \A c \in Calls :
      Active(c) =>
        LET raw == Meta(c).rawChunks IN
        /\ (calls[c].pc = "thrown" /\ Len(raw) > 0) =>
             Last(raw).offset # calls[c].offset
        /\ (Len(raw) = 1 /\ raw[1].type = IHDR /\ raw[1].length < 13) =>
             Meta(c).technicalInfo = EmptyObject

(***************************************************************************)
(* C4.  IEND is a hard stop: a descriptor of type IEND is the last of      *)
(* rawChunks, and the record returned is the record of the buffer cut off  *)
(* behind its first IEND chunk, whatever bytes follow that chunk.          *)
(***************************************************************************)
C4_IendStops ==
    \A c \in Calls :
      Active(c) =>
        LET raw == Meta(c).rawChunks IN
        /\ \A i \in 1 .. Len(raw) : raw[i].type = IEND => i = Len(raw)
        /\ (calls[c].pc = "returned" /\ Len(raw) > 0 /\ Last(raw).type = IEND) =>
             LET upto == Last(raw).offset + 12 + Last(raw).length IN
             /\ upto <= Len(calls[c].buffer)
             /\ Meta(c) = parsePNGMetadata(SubSeq(calls[c].buffer, 1, upto), env).metadata

\* returned at an IEND chunk that a whole chunk follows
C4_Witness ==
    \E c \in Calls :
      /\ calls[c].pc = "returned"
      /\ Len(Meta(c).rawChunks) = 2
      /\ DOMAIN Meta(c).textChunks # {}
      /\ Last(Meta(c).rawChunks).type = IEND
      /\ LET upto == calls[c].offset IN
         /\ Len(calls[c].buffer) >= upto + 12
         /\ SubSeq(calls[c].buffer, upto + 5, upto + 8) = tEXt
         /\ GetUint32(calls[c].buffer, upto) + upto + 12 <= Len(calls[c].buffer)

(***************************************************************************)
(* C5.  rawChunks holds one descriptor per chunk header parsed so far, in  *)
(* file order: the first at offset 8, each next one at the offset of the   *)
(* one before plus 12 plus its length, with the length and the type read   *)
(* at offset and offset + 4; and a chunk of a kind processChunk does not   *)
(* know is recorded while technicalInfo and textChunks stay as they were.  *)
(***************************************************************************)
\* the descriptors of call c are the chain of the chunk headers of its buffer
C5_ChainAt(c) ==
    LET raw == Meta(c).rawChunks
        buf == calls[c].buffer
        next == IF Len(raw) = 0 THEN 8
                ELSE Last(raw).offset + 12 + Last(raw).length
    IN
    /\ \A i \in 1 .. Len(raw) :
         /\ raw[i].offset = IF i = 1 THEN 8
                            ELSE raw[i - 1].offset + 12 + raw[i - 1].length
         /\ raw[i].offset + 8 <= Len(buf)
         /\ raw[i].length = buf[raw[i].offset + 1] * 16777216
                              + buf[raw[i].offset + 2] * 65536
                              + buf[raw[i].offset + 3] * 256
                              + buf[raw[i].offset + 4]
         /\ raw[i].type = SubSeq(buf, raw[i].offset + 5, raw[i].offset + 8)
    \* the walk is at the header behind the last descriptor, or in the
    \* chunk of the last descriptor
    /\ calls[c].pc \in {"loop", "returned"} => calls[c].offset = next
    /\ calls[c].pc \in {"chunk", "reading"} =>
         Len(raw) > 0 /\ calls[c].offset = Last(raw).offset

\* C5: always the descriptors are the chain of the headers parsed so far,
\* and a chunk of an unknown kind only adds its descriptor
C5_RawChunks ==
    /\ [](\A c \in Calls : Active(c) => C5_ChainAt(c))
    /\ [][\A c \in Calls, t \in {IDAT, IEND} :
            Dispatched(c, t) =>
              /\ calls'[c].pc = "chunk"
              /\ Last(heap'[calls[c].record].rawChunks) =
                   [type |-> t,
                    length |-> GetUint32(calls[c].buffer, calls[c].offset),
                    offset |-> calls[c].offset]
              /\ heap'[calls[c].record].technicalInfo = Meta(c).technicalInfo
              /\ heap'[calls[c].record].textChunks = Meta(c).textChunks]_vars

\* a text chunk, then a chunk of a kind processChunk does not know
C5_Witness ==
    \E c \in Calls :
      /\ Active(c)
      /\ Len(Meta(c).rawChunks) = 2
      /\ Meta(c).rawChunks[1].type = tEXt
      /\ Meta(c).rawChunks[2].type = IDAT
      /\ DOMAIN Meta(c).textChunks # {}
      /\ calls[c].pc = "loop"

C7_WholeOutput ==
    \A c \in Calls :
      (calls[c].pc = "chunk" /\ calls[c].chunkType = zTXt) =>
        LET data == Payload(calls[c].buffer, calls[c].offset, calls[c].chunkLength)
            zeros == {i \in 1 .. Len(data) : data[i] = 0}
            tc == Meta(c).textChunks
        IN
        zeros # {} =>
          LET z == CHOOSE i \in zeros : \A j \in zeros : i <= j
              keyword == Latin1Decode(SubSeq(data, 1, z - 1))
              stream == SubSeq(data, z + 2, Len(data))
          IN
          /\ (Len(data) = z \/ data[z + 1] # 0) =>
               (Len(Meta(c).rawChunks) = 1 => tc = EmptyObject)
          /\ (Len(data) > z /\ data[z + 1] = 0 /\ env.hasDS
                /\ Inflate(stream).err = "none") =>
               /\ keyword \in DOMAIN tc
               /\ tc[keyword] = Latin1Decode(Inflate(stream).out)

(***************************************************************************)
(* C8.  In an iTXt payload the keyword ends at the first zero byte, the    *)
(* two bytes behind it are skipped whatever they hold, the language tag    *)
(* and the translated keyword each end at the next zero byte, and          *)
(* textChunks[keyword] is the UTF-8 decoding of all bytes left, the same   *)
(* for every compression flag; with a terminator missing the chunk adds    *)
(* no entry and the walk goes on.                                          *)
(***************************************************************************)
\* the first index (1-based) from `from` on that holds a zero, or 0
FirstZero(data, from) ==
    IF \E i \in from .. Len(data) : data[i] = 0
    THEN CHOOSE i \in from .. Len(data) :
           data[i] = 0 /\ \A j \in from .. i - 1 : data[j] # 0
    ELSE 0

C9_OwnRecord ==
    /\ [](\A c \in Calls :
            /\ Active(c) =>
                 \A d \in Calls \ {c} : Active(d) => calls[d].record # calls[c].record
            /\ calls[c].pc = "returned" =>
                 LET alone == parsePNGMetadata(calls[c].buffer, env) IN
                 ~alone.thrown /\ Meta(c) = alone.metadata
            /\ calls[c].pc = "thrown" => parsePNGMetadata(calls[c].buffer, env).thrown)
    /\ [][\A c \in Calls :
            (Active(c) /\ calls'[c] = calls[c]) =>
              heap'[calls[c].record] = heap[calls[c].record]]_vars

\* two calls on the same buffer, both suspended in await processChunk with
\* part of their records built
C9_Witness ==
    /\ calls[1].buffer = calls[2].buffer
    /\ calls[1].pc = "reading"
    /\ calls[2].pc = "chunk"
    /\ Len(heap[calls[2].record].rawChunks) = 2
    /\ DOMAIN heap[calls[2].record].textChunks # {}

(***************************************************************************)
(* C10.  In processFiles the failure of one file (its read, its decoding,  *)
(* its preview) is isolated: the file adds no entry to uploadedImages, an  *)
(* error naming it is shown and the loop goes on to the next file; a file  *)
(* whose three steps succeed is appended, the files being taken in batch   *)
(* order; behind the loop the image list is rebuilt and, with              *)
(* uploadedImages not empty, an image is displayed.                        *)
(***************************************************************************)
C10_FailureIsolated ==
    [][\A u \in Uploads :
         (uploads'[u] # uploads[u] /\ uploads[u].pc \in {"read", "parse", "preview"}) =>
           LET b == uploads[u]
               b2 == uploads'[u]
               file == b.pngFiles[b.i]
               movedOn ==
                   \/ b.i < Len(b.pngFiles) /\ b2.pc = "read" /\ b2.i = b.i + 1
                   \/ b.i = Len(b.pngFiles) /\ b2.pc = "done"
               failed ==
                   /\ uploadedImages' = uploadedImages
                   /\ dom'.errorMessage = FileError(file.name)
                   /\ movedOn
               pushed ==
                   /\ Len(uploadedImages') = Len(uploadedImages) + 1
                   /\ SubSeq(uploadedImages', 1, Len(uploadedImages)) = uploadedImages
                   /\ Last(uploadedImages').name = file.name
                   /\ Last(uploadedImages').file = file
                   /\ Last(uploadedImages').metadata
                        = parsePNGMetadata(file.buffer, env).metadata
                   /\ movedOn
               stays(pc) ==
                   /\ b2.pc = pc /\ b2.i = b.i
                   /\ uploadedImages' = uploadedImages
               n == Len(uploadedImages')
           IN
           /\ b2.pngFiles = b.pngFiles
           /\ b.pc = "read" => (stays("parse") \/ failed)
           /\ b.pc = "parse" =>
                IF ~HasSignature(file.buffer) \/ parsePNGMetadata(file.buffer, env).thrown
                THEN failed ELSE stays("preview")
           /\ b.pc = "preview" => (pushed \/ failed)
           /\ (b2.pc = "done" /\ n > 0) =>
                /\ dom'.imageListSection
                /\ Len(dom'.imageList) = n
                /\ \A k \in 1 .. n :
                     /\ dom'.imageList[k].index = k - 1
                     /\ dom'.imageList[k].name = uploadedImages'[k].name
                /\ dom'.pnginfoSection
                /\ currentImageIndex' = 0
                /\ dom'.shown.name = uploadedImages'[1].name]_vars

\* a batch of two whose first file has no signature and whose second file
\* is the one image uploaded and displayed
C10_Witness ==
    \E u \in Uploads :
      /\ uploads[u].pc = "done"
      /\ Len(uploads[u].pngFiles) = 2
      /\ ~HasSignature(uploads[u].pngFiles[1].buffer)
      /\ Len(uploadedImages) = 1
      /\ uploadedImages[1].file = uploads[u].pngFiles[2]
      /\ currentImageIndex = 0
      /\ dom.shown.name = uploads[u].pngFiles[2].name
      /\ dom.errorMessage = FileError(uploads[u].pngFiles[1].name)

(***************************************************************************)
(* C11.  After resetAll has run, and until processFiles is called again,   *)
(* uploadedImages is empty and currentImageIndex is -1, whatever the       *)
(* processFiles calls do that were started before the reset and are        *)
(* suspended at an await.                                                  *)
(***************************************************************************)
C11_ResetStays ==
    sinceReset => (uploadedImages = <<>> /\ currentImageIndex = -1)

(***************************************************************************)
(* C12.  The chunk walk of a buffer with the signature terminates, by      *)
(* return or by error, when every pending reader.read() settles: the       *)
(* cursor is 8 when the walk starts and grows by 12 or more in every pass, *)
(* a chunk is read only while cursor < byteLength - 8, so the passes are   *)
(* bounded by the length of the buffer (12 bytes or more of it per         *)
(* descriptor) whatever the length fields say, and every such call ends.   *)
(***************************************************************************)
C12_Bounded(c) ==
    (Active(c) /\ HasSignature(calls[c].buffer)) =>
      /\ calls[c].pc \in {"reading", "chunk"} =>
           calls[c].offset < Len(calls[c].buffer) - 8
      /\ calls[c].pc # "sig" => calls[c].offset >= 8
      /\ 12 * Len(Meta(c).rawChunks) <= Len(calls[c].buffer)

C12_CursorGrows(c) ==
    (Active(c) /\ calls'[c].offset # calls[c].offset) =>
      \/ calls[c].pc = "sig" /\ calls'[c].offset = 8
      \/ calls[c].pc = "chunk" /\ calls'[c].offset >= calls[c].offset + 12

\* C12: the walk of a buffer with the signature is bounded and ends
C12_WalkTerminates ==
    /\ [](\A c \in Calls : C12_Bounded(c))
    /\ [][\A c \in Calls : C12_CursorGrows(c)]_vars
    /\ \A c \in Calls :
         (Active(c) /\ HasSignature(calls[c].buffer))
           ~> (calls[c].pc \in {"returned", "thrown"})

\* a walk has ended on a chunk of length 0 followed by a chunk whose length
\* field is 2^30
C12_Witness ==
    \E c \in Calls :
      /\ calls[c].pc = "thrown"
      /\ HasSignature(calls[c].buffer)
      /\ Meta(c).rawChunks = <<[type |-> IDAT, length |-> 0, offset |-> 8]>>
      /\ calls[c].offset = 20
      /\ calls[c].chunkLength = 1073741824

(***************************************************************************)
(* C13.  In every state of the viewer, whatever the order of uploads,      *)
(* clicks and resets, currentImageIndex is -1 or the index of an uploaded  *)
(* image, and showImage with an index outside uploadedImages (that of a    *)
(* thumbnail built before a reset too) changes nothing.                    *)
(***************************************************************************)
C13_IndexValid ==
    /\ \/ currentImageIndex = -1
       \/ 0 <= currentImageIndex /\ currentImageIndex < Len(uploadedImages)
    /\ \A index \in -2 .. MaxFiles + 1 :
         (index < 0 \/ index >= Len(uploadedImages)) => showImage(View, index) = View
    /\ \A k \in DOMAIN dom.imageList :
         dom.imageList[k].index >= Len(uploadedImages) =>
           showImage(View, dom.imageList[k].index) = View

\* after a reset the page still holds a thumbnail, whose index is no longer
\* that of an image, and a processFiles call is suspended
C13_Witness ==
    /\ sinceReset
    /\ uploadedImages = <<>>
    /\ currentImageIndex = -1
    /\ \E k \in DOMAIN dom.imageList : dom.imageList[k].index = 0
    /\ \E u \in Uploads : uploads[u].pc = "preview"

=============================================================================
